---- MODULE Spec2Model ----
(***************************************************************************)
(* A model of cosmic-ray's command-line program (cosmic_ray/cli.py): the   *)
(* session commands init, exec, run, report, survival-rate and worker, and *)
(* the work database, executor and worker protocol they drive.             *)
(*                                                                         *)
(* cli.py is modelled from its source.  cosmic_ray.work_db,                *)
(* cosmic_ray.commands, cosmic_ray.worker and cosmic_ray.plugins, which    *)
(* cli.py calls, are modelled from the specification's contracts           *)
(* (sections 4.1 to 4.6, 5 and 7).                                         *)
(***************************************************************************)
EXTENDS Naturals, Integers, Sequences, FiniteSets, TLC

VARIABLES
    fs,        \* the session database files: file name -> database
    pc,        \* position of the running cosmic-ray process: "idle" | "exec"
    workers,   \* the executor's worker slots
    ev,        \* what the last command (or executor step) did and printed
    snap       \* history: the results stored when exec was last interrupted

vars == <<fs, pc, workers, ev, snap>>

-----------------------------------------------------------------------------
(* Bounds of the model.                                                    *)

\* most sites one operator reports in one module
MaxOcc == 2
\* most mutation sites in the whole code base under test
MaxSites == 2
\* worker slots of the executor
NumWorkers == 2
\* work items of the session the survival-rate specification starts from
MaxRateItems == 6

-----------------------------------------------------------------------------
(* Identifiers.                                                            *)

Sessions == {"s"}
Modules == {"m1", "m2"}
\* the operator and test-runner plugin registries
Operators == {"op1", "op2"}
TestRunners == {"unittest"}
Workers == 1..NumWorkers

Range(f) == {f[i] : i \in DOMAIN f}

RECURSIVE SumOver(_, _)
SumOver(f, S) ==
    IF S = {} THEN 0
    ELSE LET x == CHOOSE y \in S : TRUE
         IN  f[x] + SumOver(f, S \ {x})

\* what the operator plugins report: sites of each operator in each module
CountFnsUpTo(n) ==
    {c \in [Modules \X Operators -> 0..MaxOcc] :
        SumOver(c, Modules \X Operators) <= n}

\* what module discovery may yield: a non-empty list of modules, in any order,
\* a module possibly more than once
FoundLists == UNION {[1..n -> Modules] : n \in 1..Cardinality(Modules)}

-----------------------------------------------------------------------------
(* Work items, results, the work database.                                 *)

Key(m, o, i) == [module |-> m, operator |-> o, occurrence |-> i]
NoKey == Key("", "", 0)

\* a payload: the test run's output text, or an error object
Text(v) == [type |-> "text", value |-> v]
ErrorObj(v) == [type |-> "error", value |-> v]
\* Python's str() of a payload
str(d) == Text(d.value)

OutcomeKinds == {"killed", "survived", "exception"}
Result(k, d) == [kind |-> k, data |-> d]
\* a work item without a WorkResult is pending
NoResult == Result("pending", Text(""))

NoMeta == [test_runner |-> "", test_args |-> <<>>, timeout |-> 0]
\* no database file of that name
NoDB == [exists |-> FALSE, items |-> <<>>, results |-> <<>>, meta |-> NoMeta]
EmptyDB == [exists |-> TRUE, items |-> <<>>, results |-> <<>>, meta |-> NoMeta]

get_db_name(session_name) == session_name \o ".json"

FileNames == {get_db_name(s) : s \in Sessions}

\* WorkDB.Mode.create: open the file, creating an empty database if there is none
\* WorkDB.Mode.open:   fail with NotFoundError if there is none
use_db(files, db_name, mode) ==
    IF files[db_name].exists
    THEN [status |-> "ok", db |-> files[db_name]]
    ELSE IF mode = "create"
         THEN [status |-> "ok", db |-> EmptyDB]
         ELSE [status |-> "NotFoundError", db |-> NoDB]

\* the stored work items, each as often as it is stored
clear_and_set(db, items, test_runner, test_args, timeout) ==
    [exists |-> TRUE,
     items |-> items,
     results |-> [k \in DOMAIN items |-> NoResult],
     meta |-> [test_runner |-> test_runner, test_args |-> test_args,
               timeout |-> timeout]]

\* add_result writing back a stale copy: the other results are dropped
add_result_stale(db, k, r) ==
    IF k \in DOMAIN db.results
    THEN [db EXCEPT !.results =
            [j \in DOMAIN db.results |-> IF j = k THEN r ELSE NoResult]]
    ELSE db

\* upsert keyed by (module, operator, occurrence); never adds or drops an item
add_result(db, k, r) ==
    IF k \in DOMAIN db.results
    THEN [db EXCEPT !.results[k] = r]
    ELSE db

pending_items(db) == {k \in DOMAIN db.results : db.results[k] = NoResult}

all_items_with_results(db) ==
    {[item |-> k, result |-> db.results[k]] : k \in DOMAIN db.results}

-----------------------------------------------------------------------------
(* cosmic_ray.commands and cosmic_ray.timing.                              *)

\* one work item per (module, operator, occurrence < count), for every entry
\* of `modules` (a collection: module -> how often it is in it)
WorkItems(modules, counts) ==
    LET keys == UNION {{Key(m, o, i) : i \in 0..(counts[m, o] - 1)} :
                          m \in DOMAIN modules, o \in Operators}
    IN  [k \in keys |-> modules[k.module]]

commands_init(modules, counts, db, test_runner, test_args, timeout) ==
    clear_and_set(db, WorkItems(modules, counts), test_runner, test_args,
                  timeout)

\* the unmutated test run: its duration, or a failure when the tests fail
run_baseline(base) ==
    IF base.passed
    THEN [status |-> "ok", duration |-> base.duration]
    ELSE [status |-> "BaselineError", duration |-> 0]

KindCount(db, kind) ==
    Cardinality({k \in DOMAIN db.results : db.results[k].kind = kind})

\* survived / (survived + killed); `fallback` is what the implementation does
\* when no item is killed or survived
survival_rate(db, fallback) ==
    LET survived == KindCount(db, "survived")
        killed == KindCount(db, "killed")
    IN  IF survived + killed > 0
        THEN [status |-> "ok", num |-> survived, den |-> survived + killed]
        ELSE IF fallback = "zero"
             THEN [status |-> "ok", num |-> 0, den |-> 1]
             ELSE [status |-> "ZeroDivisionError", num |-> 0, den |-> 1]

create_report(db, show_pending) ==
    {l \in all_items_with_results(db) :
        show_pending \/ l.result # NoResult}

-----------------------------------------------------------------------------
(* cosmic_ray.plugins and cosmic_ray.worker.                               *)

\* looking a plugin up by its identifier fails for an unregistered one
get_operator(name) ==
    IF name \in Operators
    THEN [status |-> "ok", plugin |-> name]
    ELSE [status |-> "UnknownOperatorError", plugin |-> ""]

get_test_runner(name, test_args) ==
    IF name \in TestRunners
    THEN [status |-> "ok", plugin |-> name]
    ELSE [status |-> "UnknownTestRunnerError", plugin |-> ""]

\* Python's int() of a command-line token
int(token) ==
    IF \E n \in 0..9 : ToString(n) = token
    THEN [status |-> "ok", value |-> CHOOSE n \in 0..9 : ToString(n) = token]
    ELSE [status |-> "ValueError", value |-> 0]

\* Python's float() of a command-line token (the tokens used are whole numbers)
float(token) == int(token)

\* One mutation and test run.  env is what the worker finds: whether the module
\* can be imported, how many sites the operator has in it now, and what the
\* test run does ("pass", "fail", "raise", "timeout").
worker(module, operator, occurrence, test_runner, env) ==
    IF ~env.importable
    THEN [result_type |-> "exception", data |-> ErrorObj("ModuleNotFoundError"),
          stages |-> <<"not-started", "classified">>]
    ELSE IF occurrence >= env.sites
    THEN [result_type |-> "exception", data |-> ErrorObj("IndexError"),
          stages |-> <<"not-started", "classified">>]
    ELSE IF env.tests = "raise"
    THEN [result_type |-> "exception", data |-> ErrorObj("TestRunnerError"),
          stages |-> <<"not-started", "mutation-applied", "classified">>]
    ELSE IF env.tests = "timeout"
    THEN [result_type |-> "exception", data |-> ErrorObj("TimeoutError"),
          stages |-> <<"not-started", "mutation-applied", "classified">>]
    ELSE IF env.tests = "fail"
    THEN [result_type |-> "killed", data |-> Text("output"),
          stages |-> <<"not-started", "mutation-applied", "test-executed",
                       "classified">>]
    ELSE [result_type |-> "survived", data |-> Text("output"),
          stages |-> <<"not-started", "mutation-applied", "test-executed",
                       "classified">>]

-----------------------------------------------------------------------------
(* cli.py: the command handlers.  Each takes the files and its configuration *)
(* (and what it finds in its environment) and returns what it leaves.        *)

Opt(text) == [given |-> TRUE, text |-> text]
None == [given |-> FALSE, text |-> ""]

Outcome(status, files, next_pc) ==
    [status |-> status, files |-> files, pc |-> next_pc, lines |-> {},
     text |-> ""]

\* Python's set() of the discovered modules
set(found) == [m \in Range(found) |-> 1]

\* handle_init handing the discovered list on as it is, without set()
handle_init_noset(files, configuration, env) ==
    LET given == configuration.timeout.given
        number == IF given THEN float(configuration.timeout.text)
                  ELSE float(configuration.baseline.text)
        baseline == IF given THEN [status |-> "ok", duration |-> 0]
                    ELSE run_baseline(env.base)
        timeout == IF given THEN number.value
                   ELSE number.value * baseline.duration
        modules == [m \in Range(env.found) |->
                        Cardinality({n \in DOMAIN env.found : env.found[n] = m})]
        db_name == get_db_name(configuration.session_name)
        opened == use_db(files, db_name, "create")
        db == commands_init(modules, env.counts, opened.db,
                            configuration.test_runner,
                            configuration.test_args, timeout)
    IN  IF number.status # "ok" THEN Outcome(number.status, files, "idle")
        ELSE IF baseline.status # "ok"
        THEN Outcome(baseline.status, files, "idle")
        ELSE IF opened.status # "ok" THEN Outcome(opened.status, files, "idle")
        ELSE Outcome("ok", [files EXCEPT ![db_name] = db], "idle")

handle_init(files, configuration, env) ==
    LET given == configuration.timeout.given
        number == IF given THEN float(configuration.timeout.text)
                  ELSE float(configuration.baseline.text)
        baseline == IF given THEN [status |-> "ok", duration |-> 0]
                    ELSE run_baseline(env.base)
        timeout == IF given THEN number.value
                   ELSE number.value * baseline.duration
        modules == set(env.found)
        db_name == get_db_name(configuration.session_name)
        opened == use_db(files, db_name, "create")
        db == commands_init(modules, env.counts, opened.db,
                            configuration.test_runner,
                            configuration.test_args, timeout)
    IN  IF number.status # "ok" THEN Outcome(number.status, files, "idle")
        ELSE IF baseline.status # "ok"
        THEN Outcome(baseline.status, files, "idle")
        ELSE IF opened.status # "ok" THEN Outcome(opened.status, files, "idle")
        ELSE Outcome("ok", [files EXCEPT ![db_name] = db], "idle")

\* handle_exec clearing the stored results as it opens the session
handle_exec_clearing(files, configuration) ==
    LET db_name == get_db_name(configuration.session_name)
        opened == use_db(files, db_name, "open")
        cleared == clear_and_set(opened.db, opened.db.items,
                                 opened.db.meta.test_runner,
                                 opened.db.meta.test_args,
                                 opened.db.meta.timeout)
    IN  IF opened.status # "ok" THEN Outcome(opened.status, files, "idle")
        ELSE Outcome("running", [files EXCEPT ![db_name] = cleared], "exec")

\* handle_exec returning without calling commands.execute
handle_exec_noexecute(files, configuration) ==
    LET db_name == get_db_name(configuration.session_name)
        opened == use_db(files, db_name, "open")
    IN  IF opened.status # "ok" THEN Outcome(opened.status, files, "idle")
        ELSE Outcome("done", [files EXCEPT ![db_name] = opened.db], "idle")

\* opens the session and enters the executor (commands.execute)
handle_exec(files, configuration) ==
    LET db_name == get_db_name(configuration.session_name)
        opened == use_db(files, db_name, "open")
    IN  IF opened.status # "ok" THEN Outcome(opened.status, files, "idle")
        ELSE Outcome("running", [files EXCEPT ![db_name] = opened.db], "exec")

\* handle_run continuing an existing session instead of initializing it
handle_run_resume(files, configuration, env) ==
    LET initialized == handle_init(files, configuration, env)
    IN  IF files[get_db_name(configuration.session_name)].exists
        THEN handle_exec(files, configuration)
        ELSE IF initialized.status # "ok" THEN initialized
        ELSE handle_exec(initialized.files, configuration)

handle_run(files, configuration, env) ==
    LET initialized == handle_init(files, configuration, env)
    IN  IF initialized.status # "ok" THEN initialized
        ELSE handle_exec(initialized.files, configuration)

\* handle_report opening the session in the default mode (create)
handle_report_create(files, configuration) ==
    LET db_name == get_db_name(configuration.session_name)
        opened == use_db(files, db_name, "create")
    IN  IF opened.status # "ok" THEN Outcome(opened.status, files, "idle")
        ELSE [Outcome("ok", [files EXCEPT ![db_name] = opened.db], "idle")
                EXCEPT !.lines = create_report(opened.db,
                                               configuration.show_pending)]

handle_report(files, configuration) ==
    LET db_name == get_db_name(configuration.session_name)
        opened == use_db(files, db_name, "open")
    IN  IF opened.status # "ok" THEN Outcome(opened.status, files, "idle")
        ELSE [Outcome("ok", [files EXCEPT ![db_name] = opened.db], "idle")
                EXCEPT !.lines = create_report(opened.db,
                                               configuration.show_pending)]

Digit(n) == ToString(n % 10)

\* '{:.2f}'.format(num / den): two decimals, rounded half to even
format_2f(num, den) ==
    LET q == (100 * num) \div den
        r == (100 * num) % den
        h == IF 2 * r > den \/ (2 * r = den /\ q % 2 = 1) THEN q + 1 ELSE q
    IN  ToString(h \div 100) \o "." \o Digit(h \div 10) \o Digit(h)

\* '{:.1f}'.format(num / den)
format_1f(num, den) ==
    LET q == (10 * num) \div den
        r == (10 * num) % den
        h == IF 2 * r > den \/ (2 * r = den /\ q % 2 = 1) THEN q + 1 ELSE q
    IN  ToString(h \div 10) \o "." \o Digit(h)

\* handle_survival_rate printing one decimal
handle_survival_rate_1f(files, configuration, fallback) ==
    LET db_name == get_db_name(configuration.session_name)
        opened == use_db(files, db_name, "open")
        rate == survival_rate(opened.db, fallback)
    IN  IF opened.status # "ok" THEN Outcome(opened.status, files, "idle")
        ELSE IF rate.status # "ok"
        THEN Outcome(rate.status, [files EXCEPT ![db_name] = opened.db], "idle")
        ELSE [Outcome("ok", [files EXCEPT ![db_name] = opened.db], "idle")
                EXCEPT !.text = format_1f(rate.num, rate.den)]

handle_survival_rate(files, configuration, fallback) ==
    LET db_name == get_db_name(configuration.session_name)
        opened == use_db(files, db_name, "open")
        rate == survival_rate(opened.db, fallback)
    IN  IF opened.status # "ok" THEN Outcome(opened.status, files, "idle")
        ELSE IF rate.status # "ok"
        THEN Outcome(rate.status, [files EXCEPT ![db_name] = opened.db], "idle")
        ELSE [Outcome("ok", [files EXCEPT ![db_name] = opened.db], "idle")
                EXCEPT !.text = format_2f(rate.num, rate.den)]

\* what one worker process leaves: its exit status, the pair on its standard
\* output (NoResult when it wrote none) and the states it passed
WorkerOutput(status, stdout, stages) ==
    [status |-> status, stdout |-> stdout, stages |-> stages]

\* handle_worker raising the error of an `exception` result
handle_worker_raising(config, env) ==
    LET operator == get_operator(config.operator)
        test_runner == get_test_runner(config.test_runner, config.test_args)
        occurrence == int(config.occurrence)
        run == worker(config.module, operator.plugin, occurrence.value,
                      test_runner.plugin, env)
    IN  IF operator.status # "ok"
        THEN WorkerOutput(operator.status, NoResult, <<"not-started">>)
        ELSE IF test_runner.status # "ok"
        THEN WorkerOutput(test_runner.status, NoResult, <<"not-started">>)
        ELSE IF occurrence.status # "ok"
        THEN WorkerOutput(occurrence.status, NoResult, <<"not-started">>)
        ELSE IF run.result_type = "exception"
        THEN WorkerOutput(run.data.value, NoResult, run.stages)
        ELSE WorkerOutput("ok", Result(run.result_type, run.data),
                          Append(run.stages, "reported"))

\* handle_worker writing the error object as it is, without str()
handle_worker_nostr(config, env) ==
    LET operator == get_operator(config.operator)
        test_runner == get_test_runner(config.test_runner, config.test_args)
        occurrence == int(config.occurrence)
        run == worker(config.module, operator.plugin, occurrence.value,
                      test_runner.plugin, env)
    IN  IF operator.status # "ok"
        THEN WorkerOutput(operator.status, NoResult, <<"not-started">>)
        ELSE IF test_runner.status # "ok"
        THEN WorkerOutput(test_runner.status, NoResult, <<"not-started">>)
        ELSE IF occurrence.status # "ok"
        THEN WorkerOutput(occurrence.status, NoResult, <<"not-started">>)
        ELSE WorkerOutput("ok", Result(run.result_type, run.data),
                          Append(run.stages, "reported"))

\* handle_worker writing the pair the wrong way round: (data, result_type)
handle_worker_swapped(config, env) ==
    LET operator == get_operator(config.operator)
        test_runner == get_test_runner(config.test_runner, config.test_args)
        occurrence == int(config.occurrence)
        run == worker(config.module, operator.plugin, occurrence.value,
                      test_runner.plugin, env)
        data == IF run.result_type = "exception" THEN str(run.data)
                ELSE run.data
    IN  IF operator.status # "ok"
        THEN WorkerOutput(operator.status, NoResult, <<"not-started">>)
        ELSE IF test_runner.status # "ok"
        THEN WorkerOutput(test_runner.status, NoResult, <<"not-started">>)
        ELSE IF occurrence.status # "ok"
        THEN WorkerOutput(occurrence.status, NoResult, <<"not-started">>)
        ELSE WorkerOutput("ok", Result(data.value, Text(run.result_type)),
                          Append(run.stages, "reported"))

handle_worker(config, env) ==
    LET operator == get_operator(config.operator)
        test_runner == get_test_runner(config.test_runner, config.test_args)
        occurrence == int(config.occurrence)
        run == worker(config.module, operator.plugin, occurrence.value,
                      test_runner.plugin, env)
        data == IF run.result_type = "exception" THEN str(run.data)
                ELSE run.data
    IN  IF operator.status # "ok"
        THEN WorkerOutput(operator.status, NoResult, <<"not-started">>)
        ELSE IF test_runner.status # "ok"
        THEN WorkerOutput(test_runner.status, NoResult, <<"not-started">>)
        ELSE IF occurrence.status # "ok"
        THEN WorkerOutput(occurrence.status, NoResult, <<"not-started">>)
        ELSE WorkerOutput("ok", Result(run.result_type, data),
                          Append(run.stages, "reported"))

-----------------------------------------------------------------------------
(* The state machine.                                                      *)

Idle == [at |-> "idle", session_name |-> ""]
Executing(s) == [at |-> "exec", session_name |-> s]
Position(at, s) == IF at = "exec" THEN Executing(s) ELSE Idle

NoOutput == WorkerOutput("", NoResult, <<>>)
IdleSlot == [state |-> "idle", item |-> NoKey]

NoConfig ==
    [module |-> "", operator |-> "", occurrence |-> "", test_runner |-> "",
     test_args |-> <<>>]
NoEnv == [importable |-> FALSE, sites |-> 0, tests |-> ""]
NoWorkerRun == [config |-> NoConfig, env |-> NoEnv, output |-> NoOutput]

\* the last command: its name, its session, how it ended, whether the session
\* held results before it, the inputs it used and what it printed
Event(cmd, session_name, status) ==
    [cmd |-> cmd, session_name |-> session_name, status |-> status,
     had |-> FALSE, found |-> <<>>, counts |-> <<>>, lines |-> {},
     text |-> "", run |-> NoWorkerRun]

HasResults(db) == \E k \in DOMAIN db.results : db.results[k] # NoResult

NoSnap == [taken |-> FALSE, session_name |-> "", results |-> <<>>]

NoFiles == [f \in FileNames |-> NoDB]

\* The command lines of init and run: docopt lets exactly one of --timeout and
\* --baseline be given, and --test-runner defaults to unittest.
InitConfigs ==
    {[session_name |-> s, timeout |-> t[1], baseline |-> t[2],
      test_runner |-> "unittest", test_args |-> <<>>] :
        s \in Sessions,
        t \in {<<Opt("6"), None>>, <<None, Opt("2")>>, <<Opt("x"), None>>}}

Baselines ==
    {[passed |-> TRUE, duration |-> 3], [passed |-> FALSE, duration |-> 0]}

\* What init finds: the discovered modules, the operators' site counts in them
\* and the baseline run.
InitEnvsUpTo(n) ==
    {e \in [found : FoundLists, counts : CountFnsUpTo(n), base : Baselines] :
        \A m \in Modules \ Range(e.found), o \in Operators :
            e.counts[m, o] = 0}

InitEnvs == InitEnvsUpTo(MaxSites)

\* an init that fails on its timeout reads nothing else
BareEnv ==
    [found |-> <<"m1">>, counts |-> [c \in Modules \X Operators |-> 0],
     base |-> [passed |-> FALSE, duration |-> 0]]

\* The inputs of one init: what the command does not read is left out (no
\* baseline run with --timeout, no discovery after a failed timeout).
InitInputsUpTo(n) ==
    {i \in [configuration : InitConfigs, env : InitEnvsUpTo(n)] :
        LET given == i.configuration.timeout.given
            failed == \/ float(IF given THEN i.configuration.timeout.text
                               ELSE i.configuration.baseline.text).status # "ok"
                      \/ ~given /\ ~i.env.base.passed
        IN  /\ given => ~i.env.base.passed
            /\ failed => /\ i.env.found = BareEnv.found
                         /\ i.env.counts = BareEnv.counts}

InitInputs == InitInputsUpTo(MaxSites)

\* What a worker finds: whether the module can be imported, the operator's
\* sites in it now, what the test run does.
WorkerEnvs ==
    [importable : BOOLEAN, sites : 0..MaxOcc,
     tests : {"pass", "fail", "raise", "timeout"}]

\* the worker command line the executor builds for one work item
WorkerCommand(db, k) ==
    [module |-> k.module, operator |-> k.operator,
     occurrence |-> ToString(k.occurrence),
     test_runner |-> db.meta.test_runner, test_args |-> db.meta.test_args]

Init ==
    /\ fs = NoFiles
    /\ pc = Idle
    /\ workers = [w \in Workers |-> IdleSlot]
    /\ ev = Event("", "", "")
    /\ snap = NoSnap

CmdInit ==
    /\ pc = Idle
    /\ \E i \in InitInputs :
        LET configuration == i.configuration
            env == i.env
            r == handle_init(fs, configuration, env)
            had == HasResults(fs[get_db_name(configuration.session_name)])
        IN  /\ fs' = r.files
            /\ pc' = Position(r.pc, configuration.session_name)
            /\ ev' = IF r.status = "ok"
                     THEN [Event("init", configuration.session_name, r.status)
                             EXCEPT !.found = env.found,
                                    !.counts = env.counts,
                                    !.had = had]
                     ELSE Event("init", configuration.session_name, r.status)
            /\ snap' = IF r.status = "ok" THEN NoSnap ELSE snap
    /\ UNCHANGED workers

CmdExec ==
    /\ pc = Idle
    /\ \E s \in Sessions :
        LET r == handle_exec(fs, [session_name |-> s])
        IN  /\ fs' = r.files
            /\ pc' = Position(r.pc, s)
            /\ ev' = Event("exec", s, r.status)
    /\ UNCHANGED <<workers, snap>>

CmdRun ==
    /\ pc = Idle
    /\ \E i \in InitInputs :
        LET configuration == i.configuration
            env == i.env
            r == handle_run(fs, configuration, env)
            had == HasResults(fs[get_db_name(configuration.session_name)])
        IN  /\ fs' = r.files
            /\ pc' = Position(r.pc, configuration.session_name)
            /\ ev' = IF r.status \in {"running", "done"}
                     THEN [Event("run", configuration.session_name, r.status)
                             EXCEPT !.found = env.found,
                                    !.counts = env.counts,
                                    !.had = had]
                     ELSE Event("run", configuration.session_name, r.status)
            /\ snap' = IF r.status \in {"running", "done"} THEN NoSnap
                       ELSE snap
    /\ UNCHANGED workers

CmdReport ==
    /\ pc = Idle
    /\ \E s \in Sessions, show_pending \in BOOLEAN :
        LET r == handle_report(fs, [session_name |-> s,
                                    show_pending |-> show_pending])
        IN  /\ fs' = r.files
            /\ pc' = Position(r.pc, s)
            /\ ev' = [Event("report", s, r.status)
                        EXCEPT !.lines = r.lines]
    /\ UNCHANGED <<workers, snap>>

CmdSurvivalRate ==
    /\ pc = Idle
    /\ \E s \in Sessions, fallback \in {"zero", "raise"} :
        LET r == handle_survival_rate(fs, [session_name |-> s], fallback)
        IN  /\ fs' = r.files
            /\ pc' = Position(r.pc, s)
            /\ ev' = [Event("survival-rate", s, r.status)
                        EXCEPT !.text = r.text]
    /\ UNCHANGED <<workers, snap>>

\* the database of the session the executor holds open
ExecDB == fs[get_db_name(pc.session_name)]

-----------------------------------------------------------------------------
(* The session commands, with the executor seen from the database: the     *)
(* add_result calls it makes, in any order and number, until it stops.     *)

\* one result value: this specification reads only whether a result is stored
ResultValues == {Result("killed", Text("output"))}

ExecAddResult ==
    /\ pc.at = "exec"
    /\ \E k \in DOMAIN ExecDB.results, r \in ResultValues :
        fs' = [fs EXCEPT ![get_db_name(pc.session_name)] =
                    add_result(ExecDB, k, r)]
    /\ ev' = Event("exec", pc.session_name, "running")
    /\ UNCHANGED <<pc, workers, snap>>

ExecStop ==
    /\ pc.at = "exec"
    /\ pc' = Idle
    /\ ev' = Event("exec", pc.session_name, "stopped")
    /\ UNCHANGED <<fs, workers, snap>>

Next ==
    \/ CmdInit
    \/ CmdExec
    \/ CmdRun
    \/ CmdReport
    \/ CmdSurvivalRate
    \/ ExecAddResult
    \/ ExecStop

Spec == Init /\ [][Next]_vars

-----------------------------------------------------------------------------
(* The executor (commands.execute) on an initialized session: it hands     *)
(* pending items to its workers and records what each returns, and may be  *)
(* killed and invoked again.                                               *)

\* one environment for each way a worker run can go
ExecEnvs ==
    {e \in WorkerEnvs :
        /\ e.sites \in {0, MaxOcc}
        /\ ~e.importable => e.sites = 0
        /\ e.sites = 0 => e.tests = "pass"}

ExecInit ==
    /\ \E i \in InitInputsUpTo(MaxSites) :
        LET r == handle_init(NoFiles, i.configuration, i.env)
        IN  /\ r.status = "ok"
            /\ fs = r.files
            /\ ev = Event("init", i.configuration.session_name, "ok")
    /\ pc = Idle
    /\ workers = [w \in Workers |-> IdleSlot]
    /\ snap = NoSnap

Assigned ==
    {workers[w].item : w \in {v \in Workers : workers[v].state # "idle"}}

\* take one pending item that no worker has and hand it to worker w
Dispatch(w) ==
    /\ pc.at = "exec"
    /\ workers[w].state = "idle"
    /\ \E k \in pending_items(ExecDB) \ Assigned :
        workers' = [workers EXCEPT ![w] = [state |-> "assigned", item |-> k]]
    /\ ev' = Event("exec", pc.session_name, "running")
    /\ UNCHANGED <<fs, pc, snap>>

\* worker w runs its item (the worker command) and the executor records the
\* pair it wrote; a worker that wrote none fails the executor
Complete(w) ==
    /\ pc.at = "exec"
    /\ workers[w].state = "assigned"
    /\ \E env \in ExecEnvs :
        LET config == WorkerCommand(ExecDB, workers[w].item)
            output == handle_worker(config, env)
            run == [config |-> config, env |-> env, output |-> output]
        IN  IF output.status = "ok"
            THEN /\ fs' = [fs EXCEPT ![get_db_name(pc.session_name)] =
                            add_result(ExecDB, workers[w].item, output.stdout)]
                 /\ workers' = [workers EXCEPT ![w] = IdleSlot]
                 /\ ev' = [Event("exec", pc.session_name, "running") EXCEPT !.run = run]
                 /\ UNCHANGED pc
            ELSE /\ pc' = Idle
                 /\ workers' = [v \in Workers |-> IdleSlot]
                 /\ ev' = [Event("exec", pc.session_name, "WorkerError")
                             EXCEPT !.run = run]
                 /\ UNCHANGED fs
    /\ UNCHANGED snap

\* pending_items() yields nothing more
ExecFinish ==
    /\ pc.at = "exec"
    /\ pending_items(ExecDB) = {}
    /\ pc' = Idle
    /\ workers' = [v \in Workers |-> IdleSlot]
    /\ ev' = Event("exec", pc.session_name, "done")
    /\ UNCHANGED <<fs, snap>>

\* the process running exec is killed; what its workers held is dropped
Interrupt ==
    /\ pc.at = "exec"
    /\ pc' = Idle
    /\ workers' = [v \in Workers |-> IdleSlot]
    /\ ev' = Event("exec", pc.session_name, "interrupted")
    /\ snap' = [taken |-> TRUE, session_name |-> pc.session_name,
                 results |-> ExecDB.results]
    /\ UNCHANGED fs

ExecStep == \E w \in Workers : Dispatch(w) \/ Complete(w)

ExecNext ==
    \/ CmdExec
    \/ ExecStep
    \/ ExecFinish
    \/ Interrupt

ExecSpec == ExecInit /\ [][ExecNext]_vars

-----------------------------------------------------------------------------
(* The worker command, run by hand on any command line.                    *)

WorkerConfigs ==
    [module : Modules, operator : Operators \cup {"bogus"},
     occurrence : {ToString(n) : n \in 0..MaxOcc} \cup {"x"},
     test_runner : TestRunners \cup {"bogus"}, test_args : {<<>>}]

CmdWorker ==
    /\ pc = Idle
    /\ \E config \in WorkerConfigs, env \in WorkerEnvs :
        LET output == handle_worker(config, env)
        IN  ev' = [Event("worker", "", output.status)
                     EXCEPT !.run = [config |-> config, env |-> env,
                                     output |-> output]]
    /\ UNCHANGED <<fs, pc, workers, snap>>

WorkerNext == CmdWorker

WorkerSpec == Init /\ [][WorkerNext]_vars

-----------------------------------------------------------------------------
(* survival-rate on a session of MaxRateItems work items that the executor *)
(* fills with results of every kind.                                       *)

RateCounts ==
    [c \in Modules \X Operators |->
        IF c = <<"m1", "op1">> THEN MaxRateItems ELSE 0]

RateResultValues ==
    {Result("killed", Text("output")), Result("survived", Text("output")),
     Result("exception", Text("TimeoutError"))}

RateInit ==
    /\ \E s \in Sessions :
        /\ fs = [NoFiles EXCEPT ![get_db_name(s)] =
                    commands_init(set(<<"m1">>), RateCounts, EmptyDB,
                                  "unittest", <<>>, 6)]
        /\ pc = Executing(s)
        /\ ev = Event("exec", s, "running")
    /\ workers = [w \in Workers |-> IdleSlot]
    /\ snap = NoSnap

RateAddResult ==
    /\ pc.at = "exec"
    /\ \E k \in pending_items(ExecDB), r \in RateResultValues :
        fs' = [fs EXCEPT ![get_db_name(pc.session_name)] =
                    add_result(ExecDB, k, r)]
    /\ ev' = Event("exec", pc.session_name, "running")
    /\ UNCHANGED <<pc, workers, snap>>

RateNext ==
    \/ RateAddResult
    \/ ExecStop
    \/ CmdSurvivalRate

RateSpec == RateInit /\ [][RateNext]_vars

-----------------------------------------------------------------------------
(* The properties.                                                         *)

DB(s) == fs[get_db_name(s)]

Stored(db) == {k \in DOMAIN db.results : db.results[k] # NoResult}

ExecDone == ev.cmd = "exec" /\ ev.status = "done"

InitDone ==
    \/ ev.cmd = "init" /\ ev.status = "ok"
    \/ ev.cmd = "run" /\ ev.status \in {"running", "done"}

\* C1: an exec that is interrupted after K of N items have a result and then
\* invoked again ends with a result for all N items, every result stored at
\* the interruption is still the stored one in every later state, and no item
\* that has a result is ever handed to a worker.
CrashResumeKeepsResults ==
    /\ snap.taken =>
        \A k \in DOMAIN snap.results :
            snap.results[k] # NoResult =>
                /\ k \in DOMAIN DB(snap.session_name).results
                /\ DB(snap.session_name).results[k] = snap.results[k]
    /\ (snap.taken /\ ExecDone) =>
        /\ DOMAIN DB(ev.session_name).results = DOMAIN snap.results
        /\ pending_items(DB(ev.session_name)) = {}
    /\ \A w \in Workers :
        workers[w].state = "assigned" =>
            /\ pc.at = "exec"
            /\ workers[w].item \in pending_items(ExecDB)

\* an exec that was interrupted with some but not all results stored has been
\* invoked again and has finished
ResumedAfterPartialRun ==
    /\ snap.taken
    /\ ExecDone
    /\ \E k, j \in DOMAIN snap.results :
        snap.results[k] # NoResult /\ snap.results[j] = NoResult

\* C2: right after init, or after run's init, on a session that may hold
\* results, no result is stored and the items are those a single init with
\* the same inputs writes to an empty place.
ReinitDiscardsResults ==
    InitDone =>
        LET once == handle_init(NoFiles,
                        [session_name |-> ev.session_name,
                         timeout |-> Opt("6"), baseline |-> None,
                         test_runner |-> "unittest", test_args |-> <<>>],
                        [found |-> ev.found, counts |-> ev.counts,
                         base |-> [passed |-> TRUE, duration |-> 3]])
        IN  /\ DB(ev.session_name).exists
            /\ Stored(DB(ev.session_name)) = {}
            /\ DB(ev.session_name).items
                = once.files[get_db_name(ev.session_name)].items
            /\ DOMAIN DB(ev.session_name).results
                = DOMAIN DB(ev.session_name).items

\* an init has just run on a session that held results
ReinitOfSessionWithResults ==
    /\ ev.cmd = "init"
    /\ ev.status = "ok"
    /\ ev.had
    /\ DOMAIN DB(ev.session_name).items # {}

\* the triples init is to write: one per discovered module, operator and
\* occurrence below the operator's count in the module
ExpectedKeys(found, counts) ==
    {k \in [module : Range(found), operator : Operators,
            occurrence : 0..MaxOcc] :
        k.occurrence < counts[k.module, k.operator]}

\* C3: right after init the stored items are exactly the triples (module,
\* operator, occurrence) with 0 <= occurrence < count, and in every state of
\* every session each stored triple is stored once and results are keyed by
\* the stored triples.
InitWritesEachTripleOnce ==
    /\ \A f \in FileNames :
        /\ \A k \in DOMAIN fs[f].items : fs[f].items[k] = 1
        /\ DOMAIN fs[f].results = DOMAIN fs[f].items
    /\ InitDone =>
        DOMAIN DB(ev.session_name).items = ExpectedKeys(ev.found, ev.counts)

\* init has run on a list that names one module twice, and wrote two or more
\* occurrences
InitOnRepeatedModule ==
    /\ ev.cmd = "init"
    /\ ev.status = "ok"
    /\ Len(ev.found) > 1
    /\ Cardinality(Range(ev.found)) = 1
    /\ Cardinality(DOMAIN DB(ev.session_name).items) > 1

NoSharedItem ==
    \A v, w \in Workers :
        (v # w /\ workers[v].state # "idle" /\ workers[w].state # "idle")
            => workers[v].item # workers[w].item

ResultsKept ==
    \A f \in FileNames :
        \A k \in Stored(fs[f]) :
            /\ k \in DOMAIN fs'[f].results
            /\ fs'[f].results[k] = fs[f].results[k]

\* C4: no two workers hold the same work item at once, and no step of the
\* executor or of its workers changes or drops a stored result.
WorkersShareNothing == []NoSharedItem /\ [][ResultsKept]_vars

\* two workers hold work items at the same time
TwoWorkersBusy ==
    \E v, w \in Workers :
        v # w /\ workers[v].state # "idle" /\ workers[w].state # "idle"

\* what the executor has left to do: two steps for an item not yet handed
\* out, one for an item a worker holds
Measure(files, position, slots) ==
    2 * Cardinality(pending_items(files[get_db_name(position.session_name)]))
        - Cardinality({w \in Workers : slots[w].state # "idle"})

\* C5: while exec runs it can always take a step, each step it takes leaves
\* it less to do, and when it has finished every item has a result.
ExecTerminatesComplete ==
    /\ [](ExecDone => pending_items(DB(ev.session_name)) = {})
    /\ [](pc.at = "exec" => ENABLED (ExecStep \/ ExecFinish))
    /\ [][(pc.at = "exec" /\ pc'.at = "exec")
            => Measure(fs', pc', workers') < Measure(fs, pc, workers)]_vars

\* an exec that was never interrupted has finished a session of two or more
\* items
ExecFinishedSession ==
    /\ ExecDone
    /\ ~snap.taken
    /\ Cardinality(DOMAIN DB(ev.session_name).results) > 1
    /\ pending_items(DB(ev.session_name)) = {}

\* the work item of a worker command line
ItemOf(config) ==
    Key(config.module, config.operator, int(config.occurrence).value)

\* the error a worker run meets before it can apply its mutation
FaultOf(run) ==
    IF ~run.env.importable THEN "ModuleNotFoundError"
    ELSE IF int(run.config.occurrence).value >= run.env.sites
    THEN "IndexError"
    ELSE ""

\* C6: a worker run that meets a missing module or an occurrence out of range
\* leaves an `exception` result with the error for its item, the executor
\* goes on, the other items' results and the other workers are untouched,
\* and the executor never fails on a worker.
ItemErrorsAreResults ==
    /\ [](ev.status # "WorkerError")
    /\ []((ev.cmd = "exec" /\ ev.run # NoWorkerRun /\ FaultOf(ev.run) # "")
            => /\ pc.at = "exec"
               /\ ExecDB.results[ItemOf(ev.run.config)]
                    = Result("exception", Text(FaultOf(ev.run))))
    /\ []((ExecDone /\ \E k \in DOMAIN DB(ev.session_name).results :
                        DB(ev.session_name).results[k].kind = "exception")
            => pending_items(DB(ev.session_name)) = {})
    /\ [][(ev'.cmd = "exec" /\ ev'.run # NoWorkerRun /\ FaultOf(ev'.run) # "")
            => /\ pc' = pc
               /\ \A k \in DOMAIN ExecDB.results \ {ItemOf(ev'.run.config)} :
                    fs'[get_db_name(pc.session_name)].results[k]
                        = ExecDB.results[k]
               /\ \A w \in Workers :
                    workers[w].item # ItemOf(ev'.run.config)
                        => workers'[w] = workers[w]]_vars

\* a work item has just failed on a stale occurrence while another item of
\* the session is still to be run
ItemErrorWhileOthersPending ==
    /\ ev.cmd = "exec"
    /\ ev.run # NoWorkerRun
    /\ FaultOf(ev.run) = "IndexError"
    /\ pc.at = "exec"
    /\ pending_items(ExecDB) # {}

StageOrder ==
    <<"not-started", "mutation-applied", "test-executed", "classified",
      "reported">>

\* the stages are passed in the order of StageOrder, from not-started on
InOrder(stages) ==
    /\ Len(stages) > 0
    /\ stages[1] = StageOrder[1]
    /\ \A i \in 1..Len(stages) :
        \E n \in 1..Len(StageOrder) :
            /\ stages[i] = StageOrder[n]
            /\ \A j \in 1..(i - 1) :
                \E m \in 1..(n - 1) : stages[j] = StageOrder[m]

Resolvable(config) ==
    /\ config.operator \in Operators
    /\ config.test_runner \in TestRunners
    /\ int(config.occurrence).status = "ok"

\* what a run that fails before its test run completes reports
ErrorOf(run) ==
    IF FaultOf(run) # "" THEN FaultOf(run)
    ELSE IF run.env.tests = "raise" THEN "TestRunnerError"
    ELSE IF run.env.tests = "timeout" THEN "TimeoutError"
    ELSE ""

\* C7 as claimed: every worker run passes its states in order, and one that
\* does not complete its test run (plugin resolution included) still reports
\* an `exception` pair.
WorkerAlwaysReports ==
    ev.cmd = "worker" =>
        /\ ev.run.output.status = "ok"
        /\ InOrder(ev.run.output.stages)
        /\ ev.run.output.stages[Len(ev.run.output.stages)] = "reported"
        /\ (\A i \in DOMAIN ev.run.output.stages :
                ev.run.output.stages[i] # "test-executed")
            => ev.run.output.stdout.kind = "exception"

\* C7 as amended: a worker run whose plugins resolve and whose occurrence
\* parses passes its states in order up to reported, and one that fails before
\* its test run completes reports an `exception` pair with the error as text;
\* a run whose operator or test runner is unknown, or whose occurrence is no
\* number, fails before it leaves not-started and writes no pair.
WorkerReportsAfterResolving ==
    ev.cmd = "worker" =>
        IF Resolvable(ev.run.config)
        THEN /\ ev.run.output.status = "ok"
             /\ InOrder(ev.run.output.stages)
             /\ ev.run.output.stages[Len(ev.run.output.stages)] = "reported"
             /\ (ErrorOf(ev.run) # "") <=>
                    (\A i \in DOMAIN ev.run.output.stages :
                        ev.run.output.stages[i] # "test-executed")
             /\ ErrorOf(ev.run) # "" =>
                    ev.run.output.stdout
                        = Result("exception", Text(ErrorOf(ev.run)))
        ELSE /\ ev.run.output.status # "ok"
             /\ ev.run.output.stdout = NoResult
             /\ ev.run.output.stages = <<"not-started">>

\* a worker run has failed to apply its mutation and has reported the pair
WorkerReportedMutationFailure ==
    /\ ev.cmd = "worker"
    /\ Resolvable(ev.run.config)
    /\ ev.run.env.importable
    /\ FaultOf(ev.run) = "IndexError"
    /\ ev.run.output.stdout.kind = "exception"
    /\ ev.run.output.stages[Len(ev.run.output.stages)] = "reported"

\* C8: a worker run that applies its mutation and runs the tests reports
\* killed when the tests fail, survived when they pass and exception when the
\* run raises or exceeds its timeout; every pair a worker writes has exactly
\* one of the three kinds.
WorkerClassifiesTestRun ==
    ev.cmd = "worker" =>
        /\ ev.run.output.status = "ok" =>
                ev.run.output.stdout.kind \in OutcomeKinds
        /\ (Resolvable(ev.run.config) /\ FaultOf(ev.run) = "") =>
                /\ ev.run.output.status = "ok"
                /\ ev.run.env.tests = "fail"
                        <=> ev.run.output.stdout.kind = "killed"
                /\ ev.run.env.tests = "pass"
                        <=> ev.run.output.stdout.kind = "survived"
                /\ ev.run.env.tests \in {"raise", "timeout"}
                        <=> ev.run.output.stdout.kind = "exception"

\* a worker's test run has exceeded its timeout
WorkerTimedOut ==
    /\ ev.cmd = "worker"
    /\ Resolvable(ev.run.config)
    /\ FaultOf(ev.run) = ""
    /\ ev.run.env.tests = "timeout"
    /\ ev.run.output.stdout.kind = "exception"

OfKind(db, kind) == {k \in DOMAIN db.results : db.results[k].kind = kind}

\* the text of h hundredths, as '{:.2f}' prints it
Hundredths(h) ==
    ToString(h \div 100) \o "." \o ToString((h \div 10) % 10)
        \o ToString(h % 10)

\* C9: with at least one killed or survived item, survival-rate prints
\* survived / (survived + killed) to the nearest hundredth, whatever the
\* number of exception results and pending items.
RateIsSurvivedOverDecided ==
    (ev.cmd = "survival-rate" /\ DB(ev.session_name).exists) =>
        LET survived == Cardinality(OfKind(DB(ev.session_name), "survived"))
            killed == Cardinality(OfKind(DB(ev.session_name), "killed"))
        IN  survived + killed > 0 =>
                /\ ev.status = "ok"
                /\ \E h \in 0..100 :
                    /\ ev.text = Hundredths(h)
                    /\ 2 * (100 * survived - h * (survived + killed))
                            <= survived + killed
                    /\ 2 * (h * (survived + killed) - 100 * survived)
                            <= survived + killed

\* survival-rate has printed 0.40 for 3 killed, 2 survived and 1 exception
RateOfThreeTwoOne ==
    /\ ev.cmd = "survival-rate"
    /\ Cardinality(OfKind(DB(ev.session_name), "killed")) = 3
    /\ Cardinality(OfKind(DB(ev.session_name), "survived")) = 2
    /\ Cardinality(OfKind(DB(ev.session_name), "exception")) = 1
    /\ ev.text = "0.40"

OpenExistingCommands == {"exec", "report", "survival-rate"}

\* C10: exec, report and survival-rate on a session that has no database end
\* with NotFoundError, print nothing, start no executor and leave the files
\* as they are; a database comes to exist only by init or run.
OpenExistingNeverCreates ==
    /\ [][\A s \in Sessions :
            (~DB(s).exists /\ ev'.cmd \in OpenExistingCommands
                /\ ev'.session_name = s)
            => /\ ev'.status = "NotFoundError"
               /\ ev'.lines = {}
               /\ ev'.text = ""
               /\ pc' = Idle
               /\ fs' = fs]_vars
    /\ [][\A s \in Sessions :
            (~DB(s).exists /\ fs'[get_db_name(s)].exists)
            => /\ ev'.cmd \in {"init", "run"}
               /\ ev'.session_name = s]_vars

\* survival-rate has failed on a session that has no database
RateOnMissingSession ==
    /\ ev.cmd = "survival-rate"
    /\ ev.status = "NotFoundError"
    /\ ~DB(ev.session_name).exists

=============================================================================
